---- MODULE Spec2Model ----
(***************************************************************************)
(* A model of src/src/our-algorithm/RAColorBasedCoalescing.cpp: the        *)
(* interference graph builder, the degree-ordered randomized coloring      *)
(* (simplify / biasedSelectExtended / getColor / createNewExtendedColor)   *)
(* and the assignment step (selectOrSplit / spillInterferences), run once  *)
(* per machine function by runOnMachineFunction.                           *)
(*                                                                         *)
(* std::map is modelled as a function whose DOMAIN is the set of keys the  *)
(* map holds; operator[] on a missing key inserts a value-initialised      *)
(* entry (0, false, empty set), which the model performs as well.          *)
(*                                                                         *)
(* The collaborators are modelled by their answers: a live range is a set  *)
(* of slots (two ranges overlap when they share a slot, a range without    *)
(* slots belongs to a register with no non-debug use), an allocation order *)
(* is a set of physical registers (getPotentialRegs sorts it), a physical  *)
(* register is its own single register unit, and the spiller only records  *)
(* the registers handed to it.                                             *)
(***************************************************************************)
EXTENDS Integers, Sequences, FiniteSets, TLC

\* ------------------------------------------------------------------ bounds
NumVirtRegs == 3
NumPhysRegs == 2
NumSlots == 2
MaxWeight == 2
RandMax == 2

\* ------------------------------------------------------- program constants
COLOR_INVALID == 0
NoReg == 0
\* ~0u, the all-ones unsigned; written here as the same bits read as an int
ErrorReg == -1
DepthCap == 35

VRegs == 1 .. NumVirtRegs
PhysRegs == 1 .. NumPhysRegs
Slots == 1 .. NumSlots
\* LiveInterval::weight: finite weights, or huge_valf for an unspillable one
HugeWeight == MaxWeight + 1
Weights == 1 .. HugeWeight

VARIABLES
  pc,                \* position in runOnMachineFunction
  LiveRange,         \* LIS: virtual register -> set of slots
  AllocOrder,        \* AllocationOrder answers given so far in this round
  weight,            \* LiveInterval::weight of the enqueued registers
  InterferenceGraph, Degree, OnStack, ColoringPq, ColorsTemp, Colors,
  CopyRelated, ExtendedColors, SpillWeight,
  i, j,              \* loop counters of buildInterferenceGraph
  pass,              \* how many times buildInterferenceGraph was entered
  Queue,             \* RegAllocBase queue of live intervals
  phys,              \* VirtRegMap / LiveRegMatrix: assigned register -> physreg
  Returned,          \* value selectOrSplit returned for a register
  Spilled,           \* registers handed to spiller().spill
  taken              \* history: the registers biasedSelectExtended took from
                     \* ColoringPq since simplify last ran, in order

inputs == <<LiveRange, AllocOrder, weight>>
scratch == <<InterferenceGraph, Degree, OnStack, ColoringPq, ColorsTemp, Colors,
             CopyRelated, ExtendedColors, SpillWeight>>
loopv == <<i, j, pass>>
allocv == <<Queue, phys, Returned, Spilled>>
vars == <<pc, inputs, scratch, loopv, allocv, taken>>

\* ------------------------------------------------------------ std::map
EmptyMap == << >>

\* m[k] as an rvalue: the stored value, or the value-initialised default
MapGet(m, k, d) == IF k \in DOMAIN m THEN m[k] ELSE d

\* m[k] = x
MapPut(m, k, x) == [y \in (DOMAIN m) \cup {k} |-> IF y = k THEN x ELSE m[y]]

\* the insertion operator[] performs on each key of K that is missing
MapTouch(m, K, d) == [y \in (DOMAIN m) \cup K |-> IF y \in DOMAIN m THEN m[y] ELSE d]

\* ------------------------------------------------------- collaborators
\* MRI->reg_nodbg_empty(Reg)
reg_nodbg_empty(v) == LiveRange[v] = {}

\* LiveInterval::overlaps
overlaps(u, v) == LiveRange[u] \cap LiveRange[v] # {}

\* LiveInterval::isSpillable: weight != huge_valf
isSpillable(v) == weight[v] # HugeWeight

\* ---------------------------------------------------------------- Init
Init ==
  /\ pc = "idle"
  /\ LiveRange = [v \in VRegs |-> {}]
  /\ AllocOrder = EmptyMap
  /\ weight = EmptyMap
  /\ InterferenceGraph = EmptyMap
  /\ Degree = EmptyMap
  /\ OnStack = EmptyMap
  /\ ColoringPq = {}
  /\ ColorsTemp = EmptyMap
  /\ Colors = EmptyMap
  /\ CopyRelated = EmptyMap
  /\ ExtendedColors = << >>
  /\ SpillWeight = EmptyMap
  /\ i = 0
  /\ j = 0
  /\ pass = 0
  /\ Queue = {}
  /\ phys = EmptyMap
  /\ Returned = EmptyMap
  /\ Spilled = {}
  /\ taken = << >>

\* ------------------------------------------------ runOnMachineFunction
\* lines 574-591 and the entry of algorithm(): the analyses of a new function
\* arrive, RegAllocBase::init starts from an empty VirtRegMap and
\* LiveRegMatrix.
StartRound ==
  /\ pc = "idle"
  /\ \E lr \in [VRegs -> SUBSET Slots] : LiveRange' = lr
  /\ i' = 0
  /\ j' = 0
  /\ pass' = 1
  /\ pc' = "build"
  /\ UNCHANGED <<AllocOrder, weight, scratch, allocv, taken>>

\* ------------------------------------------------- isMarkedForSpill
isMarkedForSpill(C, v) == MapGet(C, v, 0) < 0

\* -------------------------------------------- buildInterferenceGraph
\* One iteration of the outer loop up to the start of its inner loop.
BuildOuter ==
  /\ pc = "build"
  /\ IF i = NumVirtRegs
       THEN /\ pc' = "costs"
            /\ UNCHANGED <<scratch, i, j>>
       ELSE LET vReg == i + 1 IN
            IF reg_nodbg_empty(vReg)
              THEN /\ i' = i + 1
                   /\ UNCHANGED <<pc, scratch, j>>
              ELSE /\ Colors' = MapTouch(Colors, {vReg}, 0)
                   /\ IF isMarkedForSpill(Colors, vReg)
                        THEN /\ i' = i + 1
                             /\ UNCHANGED <<pc, j, InterferenceGraph, OnStack>>
                        ELSE /\ OnStack' = MapPut(OnStack, vReg, FALSE)
                             /\ InterferenceGraph' = MapTouch(InterferenceGraph, {vReg}, {})
                             /\ j' = 0
                             /\ pc' = "pair"
                             /\ UNCHANGED i
                   /\ UNCHANGED <<Degree, ColoringPq, ColorsTemp, CopyRelated,
                                  ExtendedColors, SpillWeight>>
  /\ UNCHANGED <<inputs, pass, allocv, taken>>

\* addEdge that counts the degree without looking for the edge first
addEdgeAlwaysCounts(G, D, a, b) ==
  <<MapPut(G, a, MapGet(G, a, {}) \cup {b}), MapPut(D, a, MapGet(D, a, 0) + 1)>>

\* the guarded insertion of one directed edge, lines 423-426 and 429-432
addEdge(G, D, a, b) ==
  IF b \in MapGet(G, a, {})
    THEN <<MapTouch(G, {a}, {}), D>>
    ELSE <<MapPut(G, a, MapGet(G, a, {}) \cup {b}), MapPut(D, a, MapGet(D, a, 0) + 1)>>

\* pairTest without the overlap test: every tested pair becomes an edge
pairTestNoOverlapCheck(G, D, vReg, vReg1) ==
  LET fwd == addEdge(G, D, vReg, vReg1)
  IN addEdge(fwd[1], fwd[2], vReg1, vReg)

\* pairTest that inserts only the edge vReg -> vReg1
pairTestOneDirection(G, D, vReg, vReg1) ==
  IF overlaps(vReg, vReg1) THEN addEdge(G, D, vReg, vReg1) ELSE <<G, D>>

\* the body of the inner loop for the pair (vReg, vReg1), lines 419-433
pairTest(G, D, vReg, vReg1) ==
  IF overlaps(vReg, vReg1)
    THEN LET fwd == addEdge(G, D, vReg, vReg1)
         IN addEdge(fwd[1], fwd[2], vReg1, vReg)
    ELSE <<G, D>>

\* One iteration of the inner loop, and the outer increment after the last.
PairTest ==
  /\ pc = "pair"
  /\ LET vReg == i + 1
         vReg1 == j + 1
         skipped == reg_nodbg_empty(vReg1) \/ vReg = vReg1
         marked == ~skipped /\ isMarkedForSpill(Colors, vReg1)
         res == IF skipped \/ marked
                  THEN <<InterferenceGraph, Degree>>
                  ELSE pairTest(InterferenceGraph, Degree, vReg, vReg1)
     IN /\ Colors' = IF skipped THEN Colors ELSE MapTouch(Colors, {vReg1}, 0)
        /\ InterferenceGraph' = res[1]
        /\ Degree' = res[2]
  /\ IF j + 1 = NumVirtRegs
       THEN /\ i' = i + 1
            /\ j' = 0
            /\ pc' = "build"
       ELSE /\ j' = j + 1
            /\ UNCHANGED <<i, pc>>
  /\ UNCHANGED <<inputs, pass, allocv, taken, OnStack, ColoringPq, ColorsTemp,
                 CopyRelated, ExtendedColors, SpillWeight>>

\* ------------------------------------------------ calculateSpillCosts
\* The machine function behind the live ranges: slot s holds one instruction,
\* it references the registers live at s, writes a register at the first slot
\* of its range and reads it at every later slot; a register live at a single
\* slot is read and written there.
MinSlot(S) == CHOOSE s \in S : \A t \in S : s <= t
readsReg(v, s) == s # MinSlot(LiveRange[v]) \/ LiveRange[v] = {s}
writesReg(v, s) == s = MinSlot(LiveRange[v])
BoolToInt(b) == IF b THEN 1 ELSE 0

\* MLI->getLoopDepth of the block of the instruction at slot s
getLoopDepth(s) == (s - 1) * (DepthCap + 1)

\* no cap on the loop depth
capDepthNone(d) == d

\* lines 349-351
capDepth(d) == IF d > DepthCap THEN DepthCap ELSE d

\* A double that is a sum of c * 10^e is kept as the function e |-> c, so
\* that 10^35 needs no machine integer.  w + c * pow(10, e):
addTerm(w, c, e) == MapPut(w, e, MapGet(w, e, 0) + c)

RECURSIVE sumInstrs(_, _, _)
\* the loop over the instructions referencing vreg, lines 345-355
sumInstrs(vreg, todo, w) ==
  IF todo = {} THEN w
  ELSE LET s == MinSlot(todo)
           loopDepth == capDepth(getLoopDepth(s))
           rw == BoolToInt(readsReg(vreg, s)) + BoolToInt(writesReg(vreg, s))
       IN sumInstrs(vreg, todo \ {s}, addTerm(w, rw, loopDepth))

newSpillWeight(vreg) == sumInstrs(vreg, LiveRange[vreg], EmptyMap)

calculateSpillCosts(G, SW) ==
  [v \in (DOMAIN SW) \cup (DOMAIN G) |->
     IF v \in DOMAIN G THEN newSpillWeight(v) ELSE SW[v]]

CalculateSpillCosts ==
  /\ pc = "costs"
  /\ SpillWeight' = calculateSpillCosts(InterferenceGraph, SpillWeight)
  /\ pc' = "simplify"
  /\ UNCHANGED <<inputs, loopv, allocv, taken, InterferenceGraph, Degree, OnStack,
                 ColoringPq, ColorsTemp, Colors, CopyRelated, ExtendedColors>>

\* simplify pushing every node with the degree 0
simplifyIgnoresDegree(G, D, Pq) == Pq \cup {<<0, v>> : v \in DOMAIN G}

\* ------------------------------------------------------------ simplify
\* ColoringPq holds pairs (degree, vreg); Degree[vreg] inserts a 0 for a
\* node without neighbours.
simplify(G, D, Pq) == Pq \cup {<<MapGet(D, v, 0), v>> : v \in DOMAIN G}

Simplify ==
  /\ pc = "simplify"
  /\ ColoringPq' = simplify(InterferenceGraph, Degree, ColoringPq)
  /\ Degree' = MapTouch(Degree, DOMAIN InterferenceGraph, 0)
  /\ pc' = "select"
  /\ taken' = << >>
  /\ UNCHANGED <<inputs, loopv, allocv, InterferenceGraph, OnStack, ColorsTemp,
                 Colors, CopyRelated, ExtendedColors, SpillWeight>>

\* ---------------------------------------------------- getPotentialRegs
RECURSIVE SortedSeq(_)
\* sort(potentialRegs.begin(), potentialRegs.end())
SortedSeq(S) ==
  IF S = {} THEN << >>
  ELSE LET m == CHOOSE x \in S : \A y \in S : x <= y
       IN <<m>> \o SortedSeq(S \ {m})

getPotentialRegs(order) == SortedSeq(order)

\* ------------------------------------------------------------ getColor
\* the colors of the neighbours of vreg that are not 0, lines 516-524
neighborColors(G, CT, vreg) ==
  {MapGet(CT, u, 0) : u \in MapGet(G, vreg, {})} \ {0}

\* unsigned possibilities = Colors.size() - neighborColors.size().  When the
\* set is the larger one the subtraction wraps to 2^32 - d, which is beyond
\* RAND_MAX, so that rand() % possibilities is rand() itself.
wraps(ColorList, nc) == Len(ColorList) < Cardinality(nc)
possibilitiesIsZero(ColorList, nc) == Len(ColorList) = Cardinality(nc)
kthDraw(ColorList, nc, r) ==
  IF wraps(ColorList, nc) THEN r ELSE r % (Len(ColorList) - Cardinality(nc))

\* getColor that does not skip the colors of the neighbours
getColorIgnoresNeighbors(ColorList, nc, r) ==
  IF possibilitiesIsZero(ColorList, nc) THEN COLOR_INVALID
  ELSE LET k == kthDraw(ColorList, nc, r)
       IN IF k < Len(ColorList) THEN ColorList[k + 1] ELSE COLOR_INVALID

\* lines 526-547; r is the value rand() returned
getColor(ColorList, nc, r) ==
  IF possibilitiesIsZero(ColorList, nc) THEN COLOR_INVALID
  ELSE LET k == kthDraw(ColorList, nc, r)
           free == SelectSeq(ColorList, LAMBDA c : c \notin nc)
       IN IF k < Len(free) THEN free[k + 1] ELSE COLOR_INVALID

\* createNewExtendedColor that counts down from the first color of the pool
createNewExtendedColorFromFront(Ext) ==
  IF Ext = << >> THEN -1 ELSE Ext[1] - 1

\* --------------------------------------------- createNewExtendedColor
createNewExtendedColor(Ext) ==
  IF Ext = << >> THEN -1 ELSE Ext[Len(Ext)] - 1

isExtendedColor(color) == color < 0

\* ------------------------------------------------ biasedSelectExtended
\* a queue whose top is the least pair
pqTopLeast(Pq) ==
  CHOOSE p \in Pq : \A q \in Pq : p[1] < q[1] \/ (p[1] = q[1] /\ p[2] <= q[2])

\* ColoringPq.top(): the greatest pair, by degree and then by register
pqTop(Pq) ==
  CHOOSE p \in Pq : \A q \in Pq : q[1] < p[1] \/ (q[1] = p[1] /\ q[2] <= p[2])

\* the loop body without the call of createNewExtendedColor
selectColorNoFresh(potentialRegs, Ext, nc, r1, r2) ==
  LET real == getColor(potentialRegs, nc, r1)
      ext == getColor(Ext, nc, r2)
  IN IF real # COLOR_INVALID THEN <<real, Ext>> ELSE <<ext, Ext>>

\* the loop body giving the last extended color of the pool to a node that
\* found none, whoever holds it, before it creates one
selectColorSharesExtended(potentialRegs, Ext, nc, r1, r2) ==
  LET real == getColor(potentialRegs, nc, r1)
      ext == getColor(Ext, nc, r2)
      fresh == createNewExtendedColor(Ext)
  IN IF real # COLOR_INVALID THEN <<real, Ext>>
     ELSE IF ext # COLOR_INVALID THEN <<ext, Ext>>
     ELSE IF Ext # << >> THEN <<Ext[Len(Ext)], Ext>>
     ELSE <<fresh, Append(Ext, fresh)>>

\* the color of one loop iteration, lines 486-496: <<color, new pool>>
selectColor(potentialRegs, Ext, nc, r1, r2) ==
  LET real == getColor(potentialRegs, nc, r1)
      ext == getColor(Ext, nc, r2)
      fresh == createNewExtendedColor(Ext)
  IN IF real # COLOR_INVALID THEN <<real, Ext>>
     ELSE IF ext # COLOR_INVALID THEN <<ext, Ext>>
     ELSE <<fresh, Append(Ext, fresh)>>

\* One iteration of the while loop.
Select ==
  /\ pc = "select"
  /\ ColoringPq # {}
  /\ LET vreg == pqTop(ColoringPq)[2] IN
     \E order \in SUBSET PhysRegs, r1 \in 0 .. RandMax, r2 \in 0 .. RandMax :
       /\ vreg \in DOMAIN AllocOrder => order = AllocOrder[vreg]
       /\ AllocOrder' = MapPut(AllocOrder, vreg, order)
       /\ LET nc == neighborColors(InterferenceGraph, ColorsTemp, vreg)
              touched == MapTouch(ColorsTemp, MapGet(InterferenceGraph, vreg, {}), 0)
              res == selectColor(getPotentialRegs(order), ExtendedColors, nc, r1, r2)
          IN /\ ColorsTemp' = MapPut(touched, vreg, res[1])
             /\ ExtendedColors' = res[2]
       /\ ColoringPq' = ColoringPq \ {pqTop(ColoringPq)}
       /\ taken' = Append(taken, vreg)
  /\ UNCHANGED <<LiveRange, weight, loopv, allocv, pc, InterferenceGraph, Degree,
                 OnStack, Colors, CopyRelated, SpillWeight>>

\* ------------------------------------------------------ LiveRegMatrix
\* the assigned registers in the way of VirtReg on PhysReg
interferingVRegs(P, VirtReg, PhysReg) ==
  {u \in DOMAIN P : P[u] = PhysReg /\ overlaps(u, VirtReg)}

\* Matrix->checkInterference(VirtReg, PhysReg) == IK_Free
isFree(P, VirtReg, PhysReg) == interferingVRegs(P, VirtReg, PhysReg) = {}

\* -------------------------------------------------- spillInterferences
\* the collection loop without the isSpillable test
spillInterferencesOkByWeightOnly(P, VirtReg, PhysReg) ==
  \A Intf \in interferingVRegs(P, VirtReg, PhysReg) :
    ~(weight[Intf] > weight[VirtReg])

\* lines 286-297: every interference is spillable and not heavier
spillInterferencesOk(P, VirtReg, PhysReg) ==
  \A Intf \in interferingVRegs(P, VirtReg, PhysReg) :
    isSpillable(Intf) /\ ~(weight[Intf] > weight[VirtReg])

\* lines 303-317: <<VirtRegMap, spilled>> after Matrix->unassign and spill
spillInterferences(P, Sp, VirtReg, PhysReg) ==
  LET Intfs == interferingVRegs(P, VirtReg, PhysReg)
  IN <<[u \in (DOMAIN P) \ Intfs |-> P[u]], Sp \cup Intfs>>

\* ------------------------------------------------------- selectOrSplit
\* std::lower_bound(...) - begin(): how many members are less than x
lowerBound(regs, x) == Cardinality({n \in 1 .. Len(regs) : regs[n] < x})

\* std::rotate(begin, begin + idx, end)
rotate(regs, idx) == SubSeq(regs, idx + 1, Len(regs)) \o SubSeq(regs, 1, idx)

\* lines 231-236: the candidates with the chosen color first
rotatedRegs(order, color) ==
  rotate(getPotentialRegs(order), lowerBound(getPotentialRegs(order), color))

\* selectOrSplit without the isSpillable test before the spill of VirtReg
selectOrSplitSpillsAnyway(VirtReg, order, color, P, Sp) ==
  LET regs == rotatedRegs(order, color)
      freeRegs == SelectSeq(regs, LAMBDA r : isFree(P, VirtReg, r))
      PhysRegSpillCands == SelectSeq(regs, LAMBDA r : ~isFree(P, VirtReg, r))
      evictable == SelectSeq(PhysRegSpillCands,
                             LAMBDA r : spillInterferencesOk(P, VirtReg, r))
  IN IF freeRegs # << >> THEN <<freeRegs[1], P, Sp>>
     ELSE IF evictable # << >>
       THEN LET after == spillInterferences(P, Sp, VirtReg, evictable[1])
            IN <<evictable[1], after[1], after[2]>>
     ELSE <<NoReg, P, Sp \cup {VirtReg}>>

\* <<returned register, VirtRegMap, spilled>>
selectOrSplit(VirtReg, order, color, P, Sp) ==
  LET regs == rotatedRegs(order, color)
      freeRegs == SelectSeq(regs, LAMBDA r : isFree(P, VirtReg, r))
      PhysRegSpillCands == SelectSeq(regs, LAMBDA r : ~isFree(P, VirtReg, r))
      evictable == SelectSeq(PhysRegSpillCands,
                             LAMBDA r : spillInterferencesOk(P, VirtReg, r))
  IN IF freeRegs # << >> THEN <<freeRegs[1], P, Sp>>
     ELSE IF evictable # << >>
       THEN LET after == spillInterferences(P, Sp, VirtReg, evictable[1])
            IN <<evictable[1], after[1], after[2]>>
     ELSE IF ~isSpillable(VirtReg) THEN <<ErrorReg, P, Sp>>
     ELSE <<NoReg, P, Sp \cup {VirtReg}>>

\* clearAll without ColorsTemp.clear()
ClearAllKeepsColorsTemp ==
  /\ InterferenceGraph' = EmptyMap
  /\ OnStack' = EmptyMap
  /\ Degree' = EmptyMap
  /\ ExtendedColors' = << >>
  /\ SpillWeight' = EmptyMap
  /\ CopyRelated' = EmptyMap
  /\ Colors' = EmptyMap
  /\ UNCHANGED <<ColoringPq, ColorsTemp>>

\* ---------------------------------------------------------- clearAll
\* every table but ColoringPq is cleared
ClearAll ==
  /\ InterferenceGraph' = EmptyMap
  /\ OnStack' = EmptyMap
  /\ ColorsTemp' = EmptyMap
  /\ Degree' = EmptyMap
  /\ ExtendedColors' = << >>
  /\ SpillWeight' = EmptyMap
  /\ CopyRelated' = EmptyMap
  /\ Colors' = EmptyMap
  /\ UNCHANGED ColoringPq

\* ------------------------------------------ RegAllocBase::allocatePhysRegs
\* biasedSelectExtended leaves its loop; seedLiveRegs enqueues every register
\* with a non-debug use.  The weights calculateSpillWeightsAndHints gave the
\* intervals (line 583) are first read here.
SeedLiveRegs ==
  /\ pc = "select"
  /\ ColoringPq = {}
  /\ Queue' = {v \in VRegs : ~reg_nodbg_empty(v)}
  /\ \E w \in [Queue' -> Weights] : weight' = w
  /\ pc' = "alloc"
  /\ UNCHANGED <<LiveRange, AllocOrder, scratch, loopv, phys, Returned, Spilled, taken>>

\* dequeue(): a live interval of the greatest weight
isQueueTop(Q, v) == v \in Q /\ \A u \in Q : weight[u] <= weight[v]

\* One iteration of the loop of allocatePhysRegs: dequeue, selectOrSplit, and
\* Matrix->assign of the register returned; the error sentinel ends the round.
Allocate ==
  /\ pc = "alloc"
  /\ \E VirtReg \in Queue, order \in SUBSET PhysRegs :
       /\ isQueueTop(Queue, VirtReg)
       /\ VirtReg \in DOMAIN AllocOrder => order = AllocOrder[VirtReg]
       /\ AllocOrder' = MapPut(AllocOrder, VirtReg, order)
       /\ ColorsTemp' = MapTouch(ColorsTemp, {VirtReg}, 0)
       /\ LET res == selectOrSplit(VirtReg, order, MapGet(ColorsTemp, VirtReg, 0),
                                   phys, Spilled)
          IN /\ Returned' = MapPut(Returned, VirtReg, res[1])
             /\ Spilled' = res[3]
             /\ phys' = IF res[1] \in {NoReg, ErrorReg}
                          THEN res[2]
                          ELSE MapPut(res[2], VirtReg, res[1])
             /\ pc' = IF res[1] = ErrorReg THEN "fatal" ELSE "alloc"
       /\ Queue' = Queue \ {VirtReg}
  /\ UNCHANGED <<LiveRange, weight, loopv, taken, InterferenceGraph, Degree, OnStack,
                 ColoringPq, Colors, CopyRelated, ExtendedColors, SpillWeight>>

\* lines 601-609: the queue is drained, clearAll and releaseMemory; the
\* function, its analyses and its assignment leave the allocator.
EndRound ==
  /\ pc = "alloc"
  /\ Queue = {}
  /\ ClearAll
  /\ pc' = "idle"
  /\ LiveRange' = [v \in VRegs |-> {}]
  /\ AllocOrder' = EmptyMap
  /\ weight' = EmptyMap
  /\ phys' = EmptyMap
  /\ Returned' = EmptyMap
  /\ Spilled' = {}
  /\ i' = 0
  /\ j' = 0
  /\ pass' = 0
  /\ UNCHANGED <<Queue, taken>>

Next ==
  \/ StartRound
  \/ BuildOuter
  \/ PairTest
  \/ CalculateSpillCosts
  \/ Simplify
  \/ Select
  \/ SeedLiveRegs
  \/ Allocate
  \/ EndRound

Spec == Init /\ [][Next]_vars

\* The while loop of biasedSelectExtended keeps taking nodes as long as
\* ColoringPq is not empty; nothing in its body waits.
FairSpec == Init /\ [][Next]_vars /\ WF_vars(Select)

\* buildInterferenceGraph entered a second time, on the same function and
\* without clearAll in between.
Rebuild ==
  /\ pc = "costs"
  /\ pass = 1
  /\ pass' = 2
  /\ i' = 0
  /\ j' = 0
  /\ pc' = "build"
  /\ UNCHANGED <<inputs, scratch, allocv, taken>>

NextRebuild ==
  \/ StartRound
  \/ BuildOuter
  \/ PairTest
  \/ Rebuild
  \/ CalculateSpillCosts
  \/ Simplify
  \/ Select
  \/ SeedLiveRegs
  \/ Allocate
  \/ EndRound

SpecRebuild == Init /\ [][NextRebuild]_vars

\* ================================================================== claims
colorOf(v) == MapGet(ColorsTemp, v, 0)
neighbors(v) == MapGet(InterferenceGraph, v, {})
Nodes == DOMAIN InterferenceGraph
isRealColor(c) == c > 0

\* biasedSelectExtended has left its loop and clearAll has not run yet
PassFinished ==
  \/ pc = "select" /\ ColoringPq = {}
  \/ pc \in {"alloc", "fatal"}

\* C1: after the coloring pass, the two endpoints of every edge of the
\* interference graph that both hold a real color hold different colors.
C1_ColoringValid ==
  PassFinished =>
    \A u \in Nodes : \A v \in neighbors(u) :
      isRealColor(colorOf(u)) /\ isRealColor(colorOf(v)) => colorOf(u) # colorOf(v)

\* an edge with two different real colors, both endpoints having had both
\* registers to choose from
C1_Witness ==
  /\ PassFinished
  /\ \E u \in Nodes : \E v \in neighbors(u) :
       /\ isRealColor(colorOf(u)) /\ isRealColor(colorOf(v))
       /\ AllocOrder[u] = PhysRegs /\ AllocOrder[v] = PhysRegs

\* C5: after buildInterferenceGraph the graph is the reference construction:
\* its nodes are the registers with a non-debug use that are not marked for
\* spill, and v is a neighbour of u iff both are nodes, u # v and their live
\* ranges overlap.
RefNodes == {v \in VRegs : ~reg_nodbg_empty(v) /\ ~isMarkedForSpill(Colors, v)}
RefNeighbors(u) == {v \in RefNodes : v # u /\ overlaps(u, v)}
RefGraph == [u \in RefNodes |-> RefNeighbors(u)]
GraphBuilt == pc \in {"costs", "simplify", "select", "alloc", "fatal"}

C5_GraphIsReference ==
  GraphBuilt =>
    /\ InterferenceGraph = RefGraph
    /\ \A v \in Nodes : v \notin neighbors(v)
    /\ \A v \in VRegs : reg_nodbg_empty(v) =>
         v \notin Nodes /\ \A u \in Nodes : v \notin neighbors(u)

\* the build has ended with an edge, a node without neighbours beside it
C5_Witness ==
  /\ pc = "costs"
  /\ \E u \in Nodes : neighbors(u) # {}
  /\ \E u \in Nodes : neighbors(u) = {}

\* C6: the interference graph is symmetric in every state, between any two
\* pair tests of the build included.
C6_Symmetric ==
  \A u \in Nodes : \A v \in neighbors(u) : v \in Nodes /\ u \in neighbors(v)

\* inside the build, when the pair (u, v) has been tested from u's side only
C6_Witness ==
  /\ pc = "pair"
  /\ i = 0
  /\ neighbors(1) # {}

\* C10: between two rounds and when a round starts building its graph, every
\* table of scratch state is empty, ColoringPq included.
ScratchEmpty ==
  /\ InterferenceGraph = EmptyMap
  /\ Degree = EmptyMap
  /\ SpillWeight = EmptyMap
  /\ ColorsTemp = EmptyMap
  /\ Colors = EmptyMap
  /\ ExtendedColors = << >>
  /\ ColoringPq = {}
  /\ OnStack = EmptyMap
  /\ CopyRelated = EmptyMap

RoundStarts == pc = "build" /\ i = 0 /\ pass = 1

C10_ScratchEmptyAtStart == (pc = "idle" \/ RoundStarts) => ScratchEmpty

\* a round starts after a round that colored three registers
C10_Witness == RoundStarts /\ Len(taken) = NumVirtRegs

\* C7: in every state Degree[v] is the number of neighbours of v, and no step
\* of a second run of buildInterferenceGraph over the same function changes
\* the graph or the degrees.
DegreeConsistent ==
  \A v \in VRegs : MapGet(Degree, v, 0) = Cardinality(neighbors(v))

InSecondBuild == pass = 2 /\ pc \in {"build", "pair"}

SecondBuildChangesNothing ==
  InSecondBuild => InterferenceGraph' = InterferenceGraph /\ Degree' = Degree

C7_DegreeConsistent == []DegreeConsistent /\ [][SecondBuildChangesNothing]_vars

\* the second run tests a pair that is already an edge, from the second side
C7_Witness ==
  /\ pass = 2
  /\ pc = "pair"
  /\ i = 1
  /\ j = 0
  /\ 1 \in neighbors(2)
  /\ MapGet(Degree, 2, 0) = 2

\* C2: the coloring pass ends, with ColoringPq empty, every node taken from
\* it exactly once and holding a color that is not 0; while the pass runs, a
\* color that is not 0 is never replaced.
TakenOnce ==
  /\ Len(taken) = Cardinality(Nodes)
  /\ {taken[n] : n \in 1 .. Len(taken)} = Nodes

AllColored == \A v \in Nodes : v \in DOMAIN ColorsTemp /\ ColorsTemp[v] # COLOR_INVALID

PassResult == PassFinished => ColoringPq = {} /\ TakenOnce /\ AllColored

ColorsKept ==
  pc = "select" =>
    \A v \in DOMAIN ColorsTemp :
      ColorsTemp[v] # COLOR_INVALID =>
        v \in DOMAIN ColorsTemp' /\ ColorsTemp'[v] = ColorsTemp[v]

C2_PassTerminates ==
  /\ []PassResult
  /\ [][ColorsKept]_vars
  /\ (pc = "select") ~> (pc = "select" /\ ColoringPq = {})

\* the pass has ended on three nodes, with a real and an extended color
C2_Witness ==
  /\ pc = "select"
  /\ ColoringPq = {}
  /\ Cardinality(Nodes) = NumVirtRegs
  /\ \E v \in Nodes : isRealColor(colorOf(v))
  /\ \E v \in Nodes : isExtendedColor(colorOf(v))

\* the registers selectOrSplit has answered for in this round
Resolved == DOMAIN Returned

\* C3: a register whose color is extended is never assigned a physical
\* register: selectOrSplit spills it (a spillable one gets the answer 0 and
\* goes to the spiller).
C3_ExtendedIsSpilled ==
  \A v \in Resolved :
    isExtendedColor(colorOf(v)) =>
      /\ Returned[v] \notin PhysRegs
      /\ v \notin DOMAIN phys
      /\ isSpillable(v) => Returned[v] = NoReg /\ v \in Spilled

\* C4: a register whose color is real is answered with exactly that color.
C4_RealColorIsAssigned ==
  \A v \in Resolved : isRealColor(colorOf(v)) => Returned[v] = colorOf(v)

\* C8: a register that is not spillable and whose color is extended gets the
\* error sentinel, is neither assigned nor spilled, and the round has ended
\* in the fatal error.
C8_UnspillableExtendedIsFatal ==
  \A v \in Resolved :
    ~isSpillable(v) /\ isExtendedColor(colorOf(v)) =>
      /\ Returned[v] = ErrorReg
      /\ pc = "fatal"
      /\ v \notin DOMAIN phys
      /\ v \notin Spilled

\* C9 as stated: a register with no candidate ends in the fatal error,
\* spillable or not.
C9_EmptyOrderIsFatal ==
  \A v \in Resolved : AllocOrder[v] = {} => Returned[v] = ErrorReg /\ pc = "fatal"

\* C9 as amended: a register with no candidate is given an extended color and
\* is never assigned; selectOrSplit answers the error sentinel if it is not
\* spillable, and spills it with the ordinary answer 0 if it is.
C9_EmptyOrderSpillsOrFails ==
  \A v \in DOMAIN AllocOrder :
    AllocOrder[v] = {} =>
      /\ isExtendedColor(colorOf(v))
      /\ v \in Resolved =>
           /\ v \notin DOMAIN phys
           /\ Returned[v] = IF isSpillable(v) THEN NoReg ELSE ErrorReg
           /\ v \in Spilled <=> isSpillable(v)

\* a spillable register with no candidate, colored after a neighbour of its
\* own, has been spilled with the answer 0
C9_Witness ==
  \E v \in Resolved :
    /\ AllocOrder[v] = {}
    /\ isSpillable(v)
    /\ Returned[v] = NoReg
    /\ \E u \in neighbors(v) : isRealColor(colorOf(u))

\* C11: in every state of a round the pool of extended colors is -1, -2, ...,
\* -n in the order of creation (each new color is one less than the last and
\* less than every earlier one, all are negative), and the step that creates
\* a color gives it to the node that step takes from ColoringPq.
ExtPoolCountsDown ==
  \A n \in 1 .. Len(ExtendedColors) : ExtendedColors[n] = -n

CreatedIsAssigned ==
  ExtendedColors' # ExtendedColors /\ ExtendedColors' # << >> =>
    LET created == ExtendedColors'[Len(ExtendedColors')]
    IN /\ ExtendedColors' = Append(ExtendedColors, created)
       /\ created < 0
       /\ \A n \in 1 .. Len(ExtendedColors) : created < ExtendedColors[n]
       /\ taken' # taken
       /\ ColorsTemp'[taken'[Len(taken')]] = created

C11_ExtendedColorsCountDown == []ExtPoolCountsDown /\ [][CreatedIsAssigned]_vars

\* three extended colors have been created in one round
C11_Witness ==
  /\ pc = "select"
  /\ Len(ExtendedColors) = 3
  /\ colorOf(taken[3]) = -3

\* the graph of two nodes and one edge, no node with a candidate register
TwoNodesNoCandidates ==
  /\ Cardinality(Nodes) = 2
  /\ \A u \in Nodes : neighbors(u) = Nodes \ {u}
  /\ \A u \in Nodes : u \in DOMAIN AllocOrder /\ AllocOrder[u] = {}

TwoNodesOneCandidate ==
  /\ Cardinality(Nodes) = 2
  /\ \A u \in Nodes : neighbors(u) = Nodes \ {u}
  /\ \E r \in PhysRegs : \A u \in Nodes :
       u \in DOMAIN AllocOrder /\ AllocOrder[u] = {r}

\* allocatePhysRegs has answered for every register of the queue
AllResolved == pc = "alloc" /\ Queue = {}

\* C13: two nodes that interfere, each with the same single candidate and
\* both spillable: the node taken first holds that register as its color, the
\* second one holds the extended color -1, the only one created; when every
\* register is resolved, selectOrSplit has answered exactly one of the two
\* with a register and exactly one with the spill.
C13_OneAssignOneSpill ==
  TwoNodesOneCandidate =>
    /\ PassFinished =>
         /\ AllocOrder[taken[1]] = {colorOf(taken[1])}
         /\ colorOf(taken[2]) = -1
         /\ ExtendedColors = <<-1>>
    /\ AllResolved /\ (\A u \in Nodes : isSpillable(u)) =>
         /\ Cardinality({v \in Resolved : Returned[v] \in PhysRegs}) = 1
         /\ Cardinality({v \in Resolved : Returned[v] = NoReg}) = 1

\* the pass or the resolution of a round is under way
Coloring == pc \in {"select", "alloc", "fatal"}

\* three nodes, a interferes with the two others, which do not interfere;
\* every list of candidates asked for so far is the same list L of two
StarOfThree(a, L) ==
  /\ Cardinality(Nodes) = 3
  /\ a \in Nodes
  /\ neighbors(a) = Nodes \ {a}
  /\ \A b \in Nodes \ {a} : neighbors(b) = {a}
  /\ Cardinality(L) = 2
  /\ \A u \in DOMAIN AllocOrder : AllocOrder[u] = L

\* C14: on three nodes A, B, C with the edges A-B and A-C only and the same
\* two candidates for all, whatever rand() returns: A is taken first and gets
\* one of the two registers, B and C get the other one, and the pool of
\* extended colors stays empty.
C14_StarNeedsNoExtendedColor ==
  \A a \in VRegs : \A L \in SUBSET PhysRegs :
    Coloring /\ StarOfThree(a, L) =>
      /\ ExtendedColors = << >>
      /\ taken # << >> => taken[1] = a /\ colorOf(a) \in L
      /\ \A n \in 2 .. Len(taken) :
           colorOf(taken[n]) \in L \ {colorOf(a)}

\* the pass has ended on such a graph, A on the second register
C14_Witness ==
  /\ pc = "select"
  /\ ColoringPq = {}
  /\ \E a \in VRegs : \E L \in SUBSET PhysRegs :
       /\ StarOfThree(a, L)
       /\ \A r \in L : r <= colorOf(a)
       /\ \A b \in Nodes \ {a} : isRealColor(colorOf(b))

\* the exponent and the count the claim gives the instruction at slot s
RefExponent(s) == IF getLoopDepth(s) < DepthCap THEN getLoopDepth(s) ELSE DepthCap
RefCount(v, s) ==
  IF readsReg(v, s) /\ writesReg(v, s) THEN 2
  ELSE IF readsReg(v, s) \/ writesReg(v, s) THEN 1
  ELSE 0

\* the sum of the counts of the instructions of v whose exponent is e
RefCoefficient(v, e) ==
  LET at(c) == {s \in LiveRange[v] : RefExponent(s) = e /\ RefCount(v, s) = c}
  IN Cardinality(at(1)) + 2 * Cardinality(at(2))

CostsComputed == pc \in {"simplify", "select", "alloc", "fatal"}

\* C15: once calculateSpillCosts has run, SpillWeight has an entry for
\* exactly the nodes of the graph, and the entry of v is the sum, over the
\* instructions referencing v, of (reads + writes) * 10^min(loopDepth, 35):
\* no term is negative, an instruction reading and writing v counts 2, and a
\* depth above 35 weighs what depth 35 weighs.
C15_SpillWeightIsTheSum ==
  CostsComputed =>
    /\ DOMAIN SpillWeight = Nodes
    /\ \A v \in Nodes :
         /\ DOMAIN SpillWeight[v] = {RefExponent(s) : s \in LiveRange[v]}
         /\ \A e \in DOMAIN SpillWeight[v] :
              /\ e \in 0 .. DepthCap
              /\ SpillWeight[v][e] = RefCoefficient(v, e)
              /\ SpillWeight[v][e] >= 0

\* weights are computed: one node is read and written by a single
\* instruction at a depth above 35, another one is referenced at two depths,
\* and a register that is no node has no weight
C15_Witness ==
  /\ pc = "simplify"
  /\ \E v \in Nodes :
       /\ \E s \in LiveRange[v] : getLoopDepth(s) > DepthCap /\ RefCount(v, s) = 2
       /\ SpillWeight[v] = [e \in {DepthCap} |-> 2]
  /\ \E v \in Nodes : SpillWeight[v] = [e \in {0, DepthCap} |-> 1]
  /\ \E v \in VRegs : v \notin Nodes /\ v \notin DOMAIN SpillWeight

\* the neighbours of the n-th node taken that were colored before it, and
\* the candidates of that node none of them holds
coloredNeighbors(n) == neighbors(taken[n]) \cap {taken[m] : m \in 1 .. n - 1}
availableColors(n) ==
  AllocOrder[taken[n]] \ {colorOf(u) : u \in coloredNeighbors(n)}

\* C16: every node taken from the queue whose available set (own candidates
\* minus the colors of its colored neighbours) was not empty holds a real
\* color of that set, and a node holds an extended color only if that set was
\* empty, whatever colors the neighbours hold.
C16_AvailableColorIsUsed ==
  Coloring =>
    \A n \in 1 .. Len(taken) :
      IF availableColors(n) # {}
        THEN colorOf(taken[n]) \in availableColors(n)
        ELSE isExtendedColor(colorOf(taken[n]))

\* the extended colors created before the n-th node was taken (each is held
\* by the node it was created for), and those of them that no colored
\* neighbour of that node holds
poolBefore(n) ==
  {colorOf(taken[m]) : m \in 1 .. n - 1} \cap {c \in Int : isExtendedColor(c)}
freeExtendedColors(n) ==
  poolBefore(n) \ {colorOf(u) : u \in coloredNeighbors(n)}

\* C17: a node taken with no available real color holds an extended color
\* that existed already and that no colored neighbour holds, if there was
\* one; it holds a newly created extended color only if there was none.
C17_ExtendedColorIsReused ==
  Coloring =>
    \A n \in 1 .. Len(taken) :
      availableColors(n) = {} =>
        IF freeExtendedColors(n) # {}
          THEN colorOf(taken[n]) \in freeExtendedColors(n)
          ELSE /\ isExtendedColor(colorOf(taken[n]))
               /\ colorOf(taken[n]) \notin poolBefore(n)

\* the nodes waiting in ColoringPq, the nodes taken from it
QueuedNodes == {p[2] : p \in ColoringPq}
TakenNodes == {taken[n] : n \in 1 .. Len(taken)}
degreeOf(v) == MapGet(Degree, v, 0)

\* C18: from simplify to the end of the round every node of the graph is
\* either once in ColoringPq, with its degree, or taken from it once; a node
\* taken before another has at least its degree, and at least the degree of
\* every node still queued; a node still queued has no color, so that only
\* neighbours taken earlier give a color to neighborColors.
C18_DescendingDegreeOrder ==
  Coloring =>
    /\ QueuedNodes \cup TakenNodes = Nodes
    /\ QueuedNodes \cap TakenNodes = {}
    /\ Cardinality(ColoringPq) = Cardinality(QueuedNodes)
    /\ Len(taken) = Cardinality(TakenNodes)
    /\ \A p \in ColoringPq : p[1] = degreeOf(p[2])
    /\ \A n \in 1 .. Len(taken) :
         /\ \A m \in 1 .. n - 1 : degreeOf(taken[m]) >= degreeOf(taken[n])
         /\ \A v \in QueuedNodes : degreeOf(taken[n]) >= degreeOf(v)
    /\ \A v \in QueuedNodes : colorOf(v) = COLOR_INVALID
    /\ \A v \in TakenNodes : colorOf(v) # COLOR_INVALID

\* two nodes are taken, the one of degree 2 first, its neighbour of degree 1
\* and of the lower number still queued without a color
C18_Witness ==
  /\ pc = "select"
  /\ Len(taken) = 2
  /\ degreeOf(taken[1]) = 2
  /\ degreeOf(taken[2]) = 1
  /\ taken[1] < taken[2]
  /\ \E v \in QueuedNodes : v \in neighbors(taken[1]) /\ degreeOf(v) = 1

\* C19: whenever a node is about to be taken, whatever its list of
\* candidates is, every candidate that no colored neighbour holds is what
\* getColor returns for some value of rand().
C19_EveryAvailableColorIsDrawn ==
  pc = "select" /\ ColoringPq # {} =>
    LET vreg == pqTop(ColoringPq)[2]
        nc == neighborColors(InterferenceGraph, ColorsTemp, vreg)
    IN \A order \in SUBSET PhysRegs : \A c \in order \ nc :
         \E r \in 0 .. RandMax : getColor(getPotentialRegs(order), nc, r) = c

\* no register that is not spillable is with the spiller
NoUnspillableSpilled == \A v \in Spilled : isSpillable(v)

\* no two registers whose live ranges overlap are assigned one register
MatrixConsistent ==
  \A u \in DOMAIN phys : \A v \in DOMAIN phys :
    u # v /\ overlaps(u, v) => phys[u] # phys[v]

\* One call of selectOrSplit, seen from outside: VirtReg is the register
\* dequeued, evicted are the registers that lost their assignment.
EvictionIsAllOrNothing ==
  pc = "alloc" /\ Queue' # Queue =>
    LET VirtReg == CHOOSE v \in Queue : v \notin Queue'
        ret == Returned'[VirtReg]
        evicted == (DOMAIN phys) \ (DOMAIN phys')
    IN IF ret \in PhysRegs
         THEN /\ evicted = interferingVRegs(phys, VirtReg, ret)
              /\ \A u \in evicted :
                   isSpillable(u) /\ weight[u] <= weight[VirtReg]
              /\ Spilled' = Spilled \cup evicted
              /\ evicted # {} =>
                   \A r \in AllocOrder'[VirtReg] : ~isFree(phys, VirtReg, r)
              /\ \A u \in (DOMAIN phys) \ evicted : phys'[u] = phys[u]
              /\ phys'[VirtReg] = ret
         ELSE /\ phys' = phys
              /\ Spilled' \subseteq Spilled \cup {VirtReg}
              /\ \A r \in AllocOrder'[VirtReg] :
                   /\ ~isFree(phys, VirtReg, r)
                   /\ ~spillInterferencesOk(phys, VirtReg, r)

\* C20: spillInterferences changes nothing unless every register in the way
\* of VirtReg on PhysReg is spillable and not heavier than VirtReg: a call of
\* selectOrSplit that ends without a register leaves the assignment as it
\* was and spills at most VirtReg; one that ends with PhysReg has unassigned
\* and spilled exactly the registers that were in the way on PhysReg (at
\* least one, if any was spilled), so that the assignment of VirtReg to
\* PhysReg interferes with nothing; a register that is not spillable is
\* never spilled.
C20_SpillInterferencesAllOrNothing ==
  /\ []NoUnspillableSpilled
  /\ []MatrixConsistent
  /\ [][EvictionIsAllOrNothing]_vars

\* a register has taken the place of two others on one physical register,
\* both evicted and spilled by one call
C20_Witness ==
  /\ pc = "alloc"
  /\ \E v \in DOMAIN phys :
       /\ Cardinality({u \in Spilled : Returned[u] = phys[v]}) = 2
       /\ \A u \in Spilled : overlaps(u, v) /\ weight[u] = weight[v]
====
